---- MODULE Spec2Model ----
(***************************************************************************)
(* Model of the X scraper (src/scraper.py): the session orchestrator       *)
(* Scraper.run, the incremental collector ensure_min_tweets_loaded, the    *)
(* container capture grab_entire_div_html and the aggregation of the       *)
(* per-hashtag batches.                                                    *)
(*                                                                         *)
(* The browser (Selenium driver and the page it shows) is the environment: *)
(* every driver call returns a value drawn from a small set, or raises     *)
(* where the code lets the exception escape.                               *)
(***************************************************************************)
EXTENDS Integers, Sequences, FiniteSets, TLC

\* ------------------------------------------------------------------ bounds
\* longest hashtag list given to run
MaxTags == 2
\* most elements one enumeration of a collection round returns
MaxElems == 2
\* most elements the enumeration of grab_entire_div_html returns
MaxBlocks == 1
\* largest per_tag_target given to run
MaxTarget == 1
\* largest min_count / max_scrolls given to a stand-alone collect call
MaxMin == 3
MaxRounds == 8
\* max_scrolls of the collect call whose enumerated elements are recorded
MaxSeenRounds == 3
\* longest outerHTML given to the fingerprint, longest markup it is compared
\* with, longest href given to the record's tweet_id (in tokens)
MaxMarkup == 4
MaxOther == 2
MaxHref == 4
\* longest text given to the shorthand parser (in characters)
MaxText == 4

\* ------------------------------------------------------- program constants
MAX_SCROLLS == 300
\* stable_rounds >= 6 ends the collection
STALL_LIMIT == 6
\* html.count("<article") < max(10, len(tweets) // 4)
MIN_ARTICLES == 10
\* the four container selectors of grab_entire_div_html
N_SELECTORS == 4

\* ------------------------------------------------------------------ values
None == "None"
Tags == {"#a", "#b"}
StatusIds == {"101", "102"}
Bodies == {"x", "y"}
IdOrNone == StatusIds \cup {None}

\* The part of an element's outerHTML the code looks at: the id of the first
\* /status/<digits> permalink in it (None when there is none) and the rest.
Markups == [sid : IdOrNone, body : Bodies]

MarkupSeqs == UNION {[1..n -> Markups] : n \in 0..MaxElems}

\* What parse_html_to_df reads of the tweet blocks of a page: the tweet_id of
\* each (534-542), None for a block without permalink.
BlockSeqs == UNION {[1..n -> IdOrNone] : n \in 0..MaxBlocks}

\* The hashtag lists given to run; the two tags are interchangeable, so the
\* first one is fixed.
HashtagLists ==
    {t \in UNION {[1..n -> Tags] : n \in 0..MaxTags} : t = <<>> \/ t[1] = "#a"}

Max(a, b) == IF a >= b THEN a ELSE b

VARIABLES
    \* ---- run's inputs
    driver_path_exists, username, password, hashtags, per_tag_target,
    \* ---- run's position, the exception that left the try block (and the
    \*      step that raised it), the value returned
    pc, exc, excAt, result,
    \* ---- the browser resource (self.driver), the calls of driver.quit and
    \*      of login
    driver, quitCalls, loginCalls,
    \* ---- the loop over hashtags: position in the list, position in the
    \*      selector list, the captured html, the calls of parse_html_to_df,
    \*      the batches, the aggregate
    idx, selIdx, html, parseCalls, all_dfs, final,
    \* ---- the file at out_path and the number of writes to it
    artifact, writes,
    \* ---- ensure_min_tweets_loaded: its position, arguments and locals, the
    \*      value returned, the message logged on the way out (404, 417, 442),
    \*      the counts logged per round (400), and the driver's calls of
    \*      find_elements and of the scroll script
    cpc, min_count, max_scrolls, seen, scrolls, stable_rounds,
    last_seen_count, ret, stopReason, counts, enumCalls, scrollCalls,
    \* ---- a helper function called on its own: which one, its arguments,
    \*      what it returned
    fn, arg, res

runVars == <<driver_path_exists, username, password, hashtags, per_tag_target,
             pc, exc, excAt, result, driver, quitCalls, loginCalls,
             idx, selIdx, html, parseCalls, all_dfs, final, artifact, writes>>
collectVars == <<cpc, min_count, max_scrolls, seen, scrolls, stable_rounds,
                 last_seen_count, ret, stopReason, counts, enumCalls, scrollCalls>>
pureVars == <<fn, arg, res>>
vars == <<runVars, collectVars, pureVars>>
runVarsButPc == <<driver_path_exists, username, password, hashtags,
                  per_tag_target, exc, excAt, result, driver, quitCalls,
                  loginCalls, idx, selIdx, html, parseCalls, all_dfs,
                  final, artifact, writes>>

\* ------------------------------------------------ fingerprints (363-396)
\* The fingerprint of an element: the permalink id, else "sha1-" + digest of
\* the whole outerHTML.
Fingerprint_markup(m) == [kind |-> "sha1-", val |-> m]
Fingerprint(m) ==
    IF m.sid # None
    THEN [kind |-> "id", val |-> m.sid]
    ELSE [kind |-> "sha1-", val |-> m.body]

\* The fingerprints one round adds: every enumerated element but the one
\* whose read raises (failAt = 0: none raises).
RoundFingerprints_abort(elems, failAt) ==
    {Fingerprint(elems[i]) :
        i \in {j \in 1..Len(elems) : failAt = 0 \/ j < failAt}}
RoundFingerprints(elems, failAt) ==
    {Fingerprint(elems[i]) : i \in {j \in 1..Len(elems) : j # failAt}}

\* What the enumeration of one round can add, over every list of elements the
\* driver may return and every element whose read may raise.
RoundOutcomes ==
    UNION {{RoundFingerprints(elems, failAt) : failAt \in 0..Len(elems)} :
             elems \in MarkupSeqs}

\* ------------------------------------------- collector's decisions (363-418)
\* 393: seen.add(fp), for every fingerprint of the round
Merge_replace(s, added) == added
Merge(s, added) == s \cup added

LoopContinues_le(s, m) == s <= m
LoopContinues(s, m) == s < m

TargetReached_gt(current_count, target) == current_count > target
TargetReached(current_count, target) == current_count >= target

\* 408-411: a round without growth adds one, a round with growth resets
NextStable_noreset(current_count, last, stable) == stable + 1
NextStable(current_count, last, stable) ==
    IF current_count <= last THEN stable + 1 ELSE 0

Stalled_gt(stable) == stable > STALL_LIMIT
Stalled(stable) == stable >= STALL_LIMIT

\* No helper function is being called on its own.
PureIdle == fn = "none" /\ arg = <<>> /\ res = <<>>

\* The state of a collection that has not started (locals of 358-361).
CollectIdle ==
    /\ cpc = "idle" /\ min_count = 0 /\ max_scrolls = 0
    /\ seen = {} /\ scrolls = 0 /\ stable_rounds = 0 /\ last_seen_count = 0
    /\ ret = 0 /\ stopReason = "none" /\ counts = <<>>
    /\ enumCalls = 0 /\ scrollCalls = 0

\* The locals of ensure_min_tweets_loaded go out of scope when it returns.
CollectDrop ==
    /\ cpc' = "idle" /\ min_count' = 0 /\ max_scrolls' = 0
    /\ seen' = {} /\ scrolls' = 0 /\ stable_rounds' = 0 /\ last_seen_count' = 0
    /\ ret' = 0 /\ stopReason' = "none" /\ counts' = <<>>
    /\ enumCalls' = 0 /\ scrollCalls' = 0

\* ensure_min_tweets_loaded is entered (355-361).
CollectStart(target, rounds) ==
    /\ cpc' = "loop" /\ min_count' = target /\ max_scrolls' = rounds
    /\ seen' = {} /\ scrolls' = 0 /\ stable_rounds' = 0 /\ last_seen_count' = 0
    /\ ret' = 0 /\ stopReason' = "none" /\ counts' = <<>>
    /\ enumCalls' = 0 /\ scrollCalls' = 0

\* One pass of the while loop (363-443), `added` being the fingerprints of the
\* elements read in it: when the condition fails, fall through to 441-443;
\* else enumerate, fingerprint, merge, the target check, the stall check, then
\* scroll, pause and count the round.
CollectStep(added) ==
    /\ pc \in {"collect", "standalone"}
    /\ cpc = "loop"
    /\ IF ~LoopContinues(scrolls, max_scrolls)
       THEN /\ cpc' = "returned" /\ ret' = Cardinality(seen)
            /\ stopReason' = "exhausted"
            /\ UNCHANGED <<seen, scrolls, stable_rounds, last_seen_count,
                           counts, enumCalls, scrollCalls>>
       ELSE LET merged == Merge(seen, added)
                current_count == Cardinality(merged)
                stable == NextStable(current_count, last_seen_count,
                                     stable_rounds)
            IN  /\ enumCalls' = enumCalls + 1
                /\ seen' = merged
                /\ counts' = Append(counts, current_count)
                /\ IF TargetReached(current_count, min_count)
                   THEN /\ cpc' = "returned" /\ ret' = current_count
                        /\ stopReason' = "target"
                        /\ UNCHANGED <<scrolls, stable_rounds,
                                       last_seen_count, scrollCalls>>
                   ELSE /\ stable_rounds' = stable
                        /\ last_seen_count' = current_count
                        /\ IF Stalled(stable)
                           THEN /\ cpc' = "returned"
                                /\ ret' = Cardinality(merged)
                                /\ stopReason' = "stall"
                                /\ UNCHANGED <<scrolls, scrollCalls>>
                           ELSE /\ scrollCalls' = scrollCalls + 1
                                /\ scrolls' = scrolls + 1
                                /\ UNCHANGED <<cpc, ret, stopReason>>
    /\ UNCHANGED <<min_count, max_scrolls, runVars>>

\* A pass of the loop, over everything the enumeration of the round can add.
CollectRound ==
    /\ UNCHANGED pureVars
    /\ \E added \in RoundOutcomes : CollectStep(added)

\* driver.find_elements raises (365 is outside every try): the exception
\* leaves ensure_min_tweets_loaded, and run's try block with it.
CollectRaise ==
    /\ pc \in {"collect", "standalone"}
    /\ UNCHANGED pureVars
    /\ cpc = "loop"
    /\ LoopContinues(scrolls, max_scrolls)
    /\ exc' = "WebDriverException" /\ excAt' = "collect"
    /\ IF pc = "collect"
       THEN pc' = "finally" /\ CollectDrop
       ELSE /\ pc' = pc
            /\ cpc' = "raised"
            /\ enumCalls' = enumCalls + 1
            /\ UNCHANGED <<min_count, max_scrolls, seen, scrolls, stable_rounds,
                           last_seen_count, ret, stopReason, counts, scrollCalls>>
    /\ UNCHANGED <<driver_path_exists, username, password, hashtags,
                   per_tag_target, result, driver, quitCalls, loginCalls,
                   idx, selIdx, html, parseCalls, all_dfs, final,
                   artifact, writes>>

\* --------------------------------------------------- container capture
\* What grab_entire_div_html holds in `html`: nothing, the outerHTML of the
\* container that selector `sel` found, or the wrapper built from the
\* enumerated elements. `articles` is html.count("<article"), `blocks` the
\* tweet blocks in the markup (BlockSeqs).
NoHtml == [kind |-> "none", sel |-> 0, articles |-> 0, blocks |-> <<>>]
Container(sel, articles, blocks) ==
    [kind |-> "container", sel |-> sel, articles |-> articles, blocks |-> blocks]

\* The elements whose outerHTML can be read (481-485: a read that raises
\* drops that element).
Readable(tweets, failAt) ==
    [i \in 1..(IF failAt = 0 THEN Len(tweets) ELSE Len(tweets) - 1) |->
        IF failAt = 0 \/ i < failAt THEN tweets[i] ELSE tweets[i + 1]]

Wrapper(tweets, failAt) ==
    [kind |-> "wrapper", sel |-> 0, articles |-> Len(Readable(tweets, failAt)),
     blocks |-> Readable(tweets, failAt)]

\* 477: the container is missing, or holds implausibly few item tags.
UseFallback_sparse(h, n) ==
    n > 0 /\ h.kind # "none" /\ h.articles < Max(MIN_ARTICLES, n \div 4)
UseFallback(h, n) ==
    \/ h.kind = "none"
    \/ (n > 0 /\ h.kind # "none" /\ h.articles < Max(MIN_ARTICLES, n \div 4))

\* 476-493: what grab_entire_div_html returns, given the container it holds
\* and the elements the driver enumerates. The wrapper is "<div ...>" and
\* "</div>" around the parts, so it is never empty and 489-491 returns None
\* only for html = None.
GrabResult(h, tweets, failAt) ==
    LET chosen == IF UseFallback(h, Len(tweets)) THEN Wrapper(tweets, failAt) ELSE h
    IN  IF chosen.kind = "none" THEN NoHtml ELSE chosen

\* ------------------------------------------------------------ extraction
\* parse_html_to_df (495-597): one record per tweet block, in document order;
\* of a record's fields run reads tweet_id alone, so the model keeps it and
\* the block the record came from. html = None never reaches it (713).
ParseHtmlToDf(h) ==
    [i \in 1..Len(h.blocks) |-> [tweet_id |-> h.blocks[i], block |-> i]]

\* 719: df["_queried_hashtag"] = tag
TagRows(df, tag) ==
    [i \in 1..Len(df) |->
        [tweet_id |-> df[i].tweet_id, block |-> df[i].block,
         queried_hashtag |-> tag]]

\* ------------------------------------------------------------ aggregation
\* 726: pd.concat(all_dfs, ignore_index=True)
RECURSIVE Concat(_)
Concat(dfs) == IF dfs = <<>> THEN <<>> ELSE Head(dfs) \o Concat(Tail(dfs))

\* 728: drop_duplicates(subset=["tweet_id"]) keeps the first row of every
\* tweet_id value; pandas counts missing values (None) as equal to one another.
KeepsRow_last(rows, i) ==
    \A j \in (i + 1)..Len(rows) : rows[j].tweet_id # rows[i].tweet_id
KeepsRow(rows, i) ==
    \A j \in 1..(i - 1) : rows[j].tweet_id # rows[i].tweet_id

RECURSIVE Pick(_, _, _)
Pick(rows, i, acc) ==
    IF i > Len(rows) THEN acc
    ELSE Pick(rows, i + 1, IF KeepsRow(rows, i) THEN Append(acc, rows[i]) ELSE acc)

DropDuplicates(rows) == Pick(rows, 1, <<>>)

\* 725: `if all_dfs`
HasBatches_always(dfs) == TRUE
HasBatches(dfs) == dfs # <<>>

\* out_path before run has written it
NoArtifact == [written |-> FALSE, rows |-> <<>>]

\* ------------------------------------------------------------------- run
\* `if username and password` (686): None and "" are both false.
Truthy(s) == s \notin {None, ""}

\* The for loop of 698: the tag after position i, or the end of the list.
LoopDone_early(i, tags) == i >= Len(tags) - 1
LoopDone(i, tags) == i >= Len(tags)

AfterTag(i, tags) == IF LoopDone(i, tags) THEN "aggregate" ELSE "search"

\* An exception leaves the try block of run (685-737): the finally clause runs.
Raise(kind, at) ==
    /\ exc' = kind /\ excAt' = at
    /\ pc' = "finally"

\* 72: `if not self.driver_path.exists()`
DriverPathMissing_never(exists) == FALSE
DriverPathMissing(exists) == ~exists

\* 683, 62-91: start_driver, called before the try block.
StartDriver ==
    /\ pc = "start"
    /\ UNCHANGED pureVars
    /\ IF DriverPathMissing(driver_path_exists)
       THEN /\ exc' = "FileNotFoundError" /\ excAt' = "start_driver"
            /\ pc' = "done"
            /\ UNCHANGED driver
       ELSE \E outcome \in {"ok", "chrome_raises", "set_window_size_raises"} :
              /\ driver' = IF outcome = "chrome_raises" THEN driver ELSE "running"
              /\ IF outcome = "ok"
                 THEN pc' = "auth" /\ UNCHANGED <<exc, excAt>>
                 ELSE /\ exc' = "WebDriverException" /\ excAt' = "start_driver"
                      /\ pc' = "done"
    /\ UNCHANGED <<driver_path_exists, username, password, hashtags,
                   per_tag_target, result, quitCalls, loginCalls, idx,
                   selIdx, html, parseCalls, all_dfs, final, artifact, writes,
                   collectVars>>

\* 686-690, 93-197: login when both credentials are given; driver.get (103)
\* and the typing into a found input (124-126, 162-164) are outside every try.
Auth ==
    /\ pc = "auth"
    /\ UNCHANGED pureVars
    /\ IF Truthy(username) /\ Truthy(password)
       THEN /\ loginCalls' = loginCalls + 1
            /\ \E ok \in BOOLEAN :
                 IF ok THEN pc' = "explore" /\ UNCHANGED <<exc, excAt>>
                 ELSE Raise("WebDriverException", "login")
       ELSE /\ pc' = "explore"
            /\ UNCHANGED <<loginCalls, exc, excAt>>
    /\ UNCHANGED <<driver_path_exists, username, password, hashtags,
                   per_tag_target, result, driver, quitCalls, idx,
                   selIdx, html, parseCalls, all_dfs, final, artifact, writes,
                   collectVars>>

\* 692-698, 199-254: click_explore catches everything and its result is only
\* logged; then the loop over the hashtags starts.
Explore ==
    /\ pc = "explore"
    /\ UNCHANGED pureVars
    /\ pc' = AfterTag(0, hashtags)
    /\ idx' = IF LoopDone(0, hashtags) THEN 0 ELSE 1
    /\ UNCHANGED <<driver_path_exists, username, password, hashtags,
                   per_tag_target, exc, excAt, result, driver, quitCalls,
                   loginCalls, selIdx, html, parseCalls, all_dfs, final,
                   artifact, writes, collectVars>>

\* 701, 256-296: search_hashtag; the wait for the search box (267) and the
\* typing (274, 292, 294) are outside every try.
Search ==
    /\ pc = "search"
    /\ UNCHANGED pureVars
    /\ \E ok \in BOOLEAN :
         IF ok THEN pc' = "latest" /\ UNCHANGED <<exc, excAt>>
         ELSE Raise("TimeoutException", "search")
    /\ UNCHANGED <<driver_path_exists, username, password, hashtags,
                   per_tag_target, result, driver, quitCalls, loginCalls, idx,
                   selIdx, html, parseCalls, all_dfs, final, artifact,
                   writes, collectVars>>

\* 703-708, 298-334: click_latest_tab catches everything; whatever it returns,
\* ensure_min_tweets_loaded is entered next (355-361).
Latest ==
    /\ pc = "latest"
    /\ UNCHANGED pureVars
    /\ pc' = "collect"
    /\ CollectStart(per_tag_target, MAX_SCROLLS)
    /\ UNCHANGED runVarsButPc

\* 708-712: the count is logged, the collection state is dropped and
\* grab_entire_div_html starts.
AfterCollect ==
    /\ pc = "collect" /\ cpc = "returned"
    /\ UNCHANGED pureVars
    /\ pc' = "capture_sel"
    /\ selIdx' = 1
    /\ html' = NoHtml
    /\ CollectDrop
    /\ UNCHANGED <<driver_path_exists, username, password, hashtags,
                   per_tag_target, exc, excAt, result, driver, quitCalls,
                   loginCalls, idx, parseCalls, all_dfs, final, artifact,
                   writes>>

\* 464-473: one container selector; a wait that times out or a short
\* outerHTML moves on to the next selector, an acceptable one ends the loop.
\* The container's markup holds the tweet elements of the page, which the
\* model draws at the enumeration of 476.
CaptureSelector ==
    /\ pc = "capture_sel"
    /\ UNCHANGED pureVars
    /\ \E outcome \in {"timeout", "short", "ok"},
          articles \in {MIN_ARTICLES - 1, MIN_ARTICLES} :
         IF outcome = "ok"
         THEN /\ html' = Container(selIdx, articles, <<>>)
              /\ pc' = "capture_tweets"
              /\ selIdx' = 0
         ELSE /\ articles = MIN_ARTICLES
              /\ html' = html
              /\ selIdx' = IF selIdx < N_SELECTORS THEN selIdx + 1 ELSE 0
              /\ pc' = IF selIdx < N_SELECTORS THEN "capture_sel" ELSE "capture_tweets"
    /\ UNCHANGED <<driver_path_exists, username, password, hashtags,
                   per_tag_target, exc, excAt, result, driver, quitCalls,
                   loginCalls, idx, parseCalls, all_dfs, final, artifact,
                   writes, collectVars>>

\* 476-493: enumerate the elements (476 is outside every try), fall back to
\* the wrapper when needed, return.
CaptureTweets ==
    /\ pc = "capture_tweets"
    /\ UNCHANGED pureVars
    /\ \/ \E tweets \in BlockSeqs, failAt \in 0..MaxBlocks :
            /\ failAt <= Len(tweets)
            /\ html' = GrabResult(IF html.kind = "container"
                                  THEN Container(html.sel, html.articles, tweets)
                                  ELSE html,
                                  tweets, failAt)
            /\ pc' = "extract"
            /\ UNCHANGED <<exc, excAt>>
       \/ /\ Raise("WebDriverException", "capture")
          /\ html' = NoHtml
    /\ UNCHANGED <<driver_path_exists, username, password, hashtags,
                   per_tag_target, result, driver, quitCalls, loginCalls, idx,
                   selIdx, parseCalls, all_dfs, final, artifact, writes,
                   collectVars>>

\* 713-723: skip the hashtag without html, else parse and keep a non-empty
\* batch; then the next hashtag.
Extract ==
    /\ pc = "extract"
    /\ UNCHANGED pureVars
    /\ IF html.kind = "none"
       THEN UNCHANGED <<parseCalls, all_dfs>>
       ELSE /\ parseCalls' = parseCalls + 1
            /\ LET df == ParseHtmlToDf(html)
               IN  all_dfs' = IF df # <<>>
                              THEN Append(all_dfs, TagRows(df, hashtags[idx]))
                              ELSE all_dfs
    /\ html' = NoHtml
    /\ pc' = AfterTag(idx, hashtags)
    /\ idx' = IF LoopDone(idx, hashtags) THEN idx ELSE idx + 1
    /\ UNCHANGED <<driver_path_exists, username, password, hashtags,
                   per_tag_target, exc, excAt, result, driver, quitCalls,
                   loginCalls, selIdx, final, artifact, writes,
                   collectVars>>

\* 725-728, 732: concatenate the batches and drop the duplicates, or take the
\* empty frame when there is no batch; pd.concat of no frame raises.
Aggregate ==
    /\ pc = "aggregate"
    /\ UNCHANGED pureVars
    /\ IF HasBatches(all_dfs)
       THEN IF all_dfs = <<>>
            THEN Raise("ValueError", "aggregate") /\ UNCHANGED final
            ELSE /\ final' = DropDuplicates(Concat(all_dfs))
                 /\ pc' = "persist"
                 /\ UNCHANGED <<exc, excAt>>
       ELSE /\ final' = <<>>
            /\ pc' = "persist"
            /\ UNCHANGED <<exc, excAt>>
    /\ UNCHANGED <<driver_path_exists, username, password, hashtags,
                   per_tag_target, result, driver, quitCalls,
                   loginCalls, idx, selIdx, html, parseCalls, all_dfs,
                   artifact, writes, collectVars>>

\* 729-734, 640-650: write the frame to out_path and return the path; a
\* write the sink refuses raises and leaves no file.
Persist ==
    /\ pc = "persist"
    /\ UNCHANGED pureVars
    /\ \E ok \in BOOLEAN :
         IF ok
         THEN /\ artifact' = [written |-> TRUE, rows |-> final]
              /\ writes' = writes + 1
              /\ result' = "out_path"
              /\ pc' = "finally"
              /\ UNCHANGED <<exc, excAt>>
         ELSE /\ Raise("OSError", "persist")
              /\ UNCHANGED <<artifact, writes, result>>
    /\ UNCHANGED <<driver_path_exists, username, password, hashtags,
                   per_tag_target, driver, quitCalls, loginCalls, idx,
                   selIdx, html, parseCalls, all_dfs, final, collectVars>>

\* 736-737, 652-661: the finally clause; close quits a driver that exists and
\* swallows what quit raises. Then run returns or the exception goes on.
Close ==
    /\ pc = "finally"
    /\ UNCHANGED pureVars
    /\ IF driver # "none"
       THEN /\ quitCalls' = quitCalls + 1
            /\ \E quit_ok \in BOOLEAN :
                 driver' = IF quit_ok THEN "quit" ELSE "quit_failed"
       ELSE UNCHANGED <<quitCalls, driver>>
    /\ pc' = "done"
    /\ UNCHANGED <<driver_path_exists, username, password, hashtags,
                   per_tag_target, exc, excAt, result, loginCalls, idx,
                   selIdx, html, parseCalls, all_dfs, final, artifact, writes,
                   collectVars>>

Init ==
    /\ pc = "start"
    /\ driver_path_exists \in BOOLEAN
    /\ username \in {None, "user"} /\ password \in {None, "secret"}
    /\ hashtags \in HashtagLists
    /\ per_tag_target \in 0..MaxTarget
    /\ exc = "none" /\ excAt = "none" /\ result = None
    /\ driver = "none" /\ quitCalls = 0 /\ loginCalls = 0
    /\ idx = 0 /\ selIdx = 0 /\ html = NoHtml /\ parseCalls = 0
    /\ all_dfs = <<>> /\ final = <<>>
    /\ artifact = NoArtifact /\ writes = 0
    /\ CollectIdle
    /\ PureIdle

Next ==
    \/ StartDriver \/ Auth \/ Explore \/ Search \/ Latest
    \/ CollectRound \/ CollectRaise \/ AfterCollect
    \/ CaptureSelector \/ CaptureTweets \/ Extract
    \/ Aggregate \/ Persist \/ Close

Spec == Init /\ [][Next]_vars

\* ------------------------------------------- the run with a failing log
\* Logger.log (logger.py 95-106) makes the date folder, opens the log file
\* and writes, outside every try: a write the file system refuses raises
\* OSError into the caller.

\* 73, 90: the log calls of start_driver, before the try block of run: the
\* one before the FileNotFoundError, the one after the browser has started.
LogFailsInStartDriver ==
    /\ pc = "start"
    /\ UNCHANGED pureVars
    /\ exc' = "OSError" /\ excAt' = "log"
    /\ driver' = IF DriverPathMissing(driver_path_exists) THEN driver
                 ELSE "running"
    /\ pc' = "done"
    /\ UNCHANGED <<driver_path_exists, username, password, hashtags,
                   per_tag_target, result, quitCalls, loginCalls, idx,
                   selIdx, html, parseCalls, all_dfs, final, artifact, writes,
                   collectVars>>

\* 688-732: a log call of a step inside the try block raises (each step
\* logs before it acts: 101, 688, 690, 699, 355, 400, 502, 648, 714, 732);
\* the exception leaves the try block.
LogFailsInTry ==
    /\ pc \in {"auth", "explore", "search", "latest", "collect", "capture_sel",
                "capture_tweets", "extract", "aggregate", "persist"}
    /\ UNCHANGED pureVars
    /\ Raise("OSError", "log")
    /\ html' = NoHtml /\ selIdx' = 0
    /\ CollectDrop
    /\ UNCHANGED <<driver_path_exists, username, password, hashtags,
                   per_tag_target, result, driver, quitCalls, loginCalls, idx,
                   parseCalls, all_dfs, final, artifact, writes>>

\* 656-661: close when the log fails. After a quit that worked, the log of
\* 659 raises inside the try, the handler of 660 logs at 661, which raises
\* out of close; after a quit that raised, the log of 661 raises out of
\* close. The exception leaves the finally clause and run.
CloseLogFails ==
    /\ pc = "finally"
    /\ UNCHANGED pureVars
    /\ driver # "none"
    /\ quitCalls' = quitCalls + 1
    /\ \E quit_ok \in BOOLEAN :
         driver' = IF quit_ok THEN "quit" ELSE "quit_failed"
    /\ exc' = "OSError" /\ excAt' = "close_log"
    /\ result' = None
    /\ pc' = "done"
    /\ UNCHANGED <<driver_path_exists, username, password, hashtags,
                   per_tag_target, loginCalls, idx, selIdx, html, parseCalls,
                   all_dfs, final, artifact, writes, collectVars>>

NextLog ==
    \/ StartDriver \/ Auth \/ Explore \/ Search \/ Latest
    \/ CollectRound \/ CollectRaise \/ AfterCollect
    \/ CaptureSelector \/ CaptureTweets \/ Extract
    \/ Aggregate \/ Persist \/ Close
    \/ LogFailsInStartDriver \/ LogFailsInTry \/ CloseLogFails

SpecLog == Init /\ [][NextLog]_vars

\* ------------------------------------------------ a stand-alone collect call
RunIdle ==
    /\ driver_path_exists = TRUE /\ username = None /\ password = None
    /\ hashtags = <<>> /\ per_tag_target = 0
    /\ exc = "none" /\ excAt = "none" /\ result = None
    /\ driver = "running" /\ quitCalls = 0 /\ loginCalls = 0
    /\ idx = 0 /\ selIdx = 0 /\ html = NoHtml /\ parseCalls = 0
    /\ all_dfs = <<>> /\ final = <<>>
    /\ artifact = NoArtifact /\ writes = 0

InitCollect ==
    /\ pc = "standalone" /\ RunIdle /\ PureIdle
    /\ cpc = "loop"
    /\ min_count \in -1..MaxMin /\ max_scrolls \in 0..MaxRounds
    /\ seen = {} /\ scrolls = 0 /\ stable_rounds = 0 /\ last_seen_count = 0
    /\ ret = 0 /\ stopReason = "none" /\ counts = <<>>
    /\ enumCalls = 0 /\ scrollCalls = 0

NextCollect == CollectRound \/ CollectRaise

SpecCollect == InitCollect /\ [][NextCollect]_vars

FairSpecCollect == SpecCollect /\ WF_vars(NextCollect)

\* ------------------- a collect call with the round limit that run gives it
\* max_scrolls is MAX_SCROLLS (708), far above what the stall rule allows, or
\* 1, the least limit that lets a round happen.
InitCollectDefault ==
    /\ pc = "standalone" /\ RunIdle /\ PureIdle
    /\ cpc = "loop"
    /\ min_count \in -1..MaxMin /\ max_scrolls \in {1, MAX_SCROLLS}
    /\ seen = {} /\ scrolls = 0 /\ stable_rounds = 0 /\ last_seen_count = 0
    /\ ret = 0 /\ stopReason = "none" /\ counts = <<>>
    /\ enumCalls = 0 /\ scrollCalls = 0

SpecCollectDefault == InitCollectDefault /\ [][NextCollect]_vars

\* ------------------------- a collect call whose elements are recorded
\* The elements of a round whose outerHTML was read (370 did not raise).
ReadElements(elems, failAt) ==
    {elems[i] : i \in {j \in 1..Len(elems) : j # failAt}}

\* What one round can be, over every list of elements the driver may return
\* and every element whose read may raise: the elements read, whether a read
\* raised, and the fingerprints the round adds.
ObservedRounds ==
    UNION {{[read |-> ReadElements(elems, failAt), failed |-> failAt # 0,
             added |-> RoundFingerprints(elems, failAt)] :
               failAt \in 0..Len(elems)} : elems \in MarkupSeqs}

\* A pass of the loop that records what the driver gave it: arg is the
\* elements read in the round (365-370) and whether the read of another one
\* raised, res holds every element read since the call began.
CollectRoundObserved ==
    /\ fn = "rounds" /\ fn' = fn
    /\ IF LoopContinues(scrolls, max_scrolls)
       THEN \E round \in ObservedRounds :
                /\ CollectStep(round.added)
                /\ arg' = <<round.read, round.failed>>
                /\ res' = <<res[1] \cup round.read>>
       ELSE CollectStep({}) /\ UNCHANGED <<arg, res>>

InitObserved ==
    /\ pc = "standalone" /\ RunIdle
    /\ fn = "rounds" /\ arg = <<>> /\ res = <<{}>>
    /\ cpc = "loop"
    /\ min_count \in 1..(MaxMin + 1) /\ max_scrolls = MaxSeenRounds
    /\ seen = {} /\ scrolls = 0 /\ stable_rounds = 0 /\ last_seen_count = 0
    /\ ret = 0 /\ stopReason = "none" /\ counts = <<>>
    /\ enumCalls = 0 /\ scrollCalls = 0

NextObserved == CollectRoundObserved

SpecObserved == InitObserved /\ [][NextObserved]_vars

\* ----------------------------------------------------- helper calls
\* A helper function called on its own: the run is not in progress.
HelperIdle == pc = "helper" /\ RunIdle /\ CollectIdle

\* The function returns `value`.
Return(value) ==
    /\ res' = <<value>>
    /\ UNCHANGED <<fn, arg, runVars, collectVars>>

SetMin(S) == CHOOSE x \in S : \A y \in S : x <= y
SetMax(S) == CHOOSE x \in S : \A y \in S : x >= y

\* Every text of at most n tokens.
TextsUpTo(tokens, n) == UNION {[1..k -> tokens] : k \in 0..n}

\* ------------------------------------- the fingerprint of an element (367-393)
\* A text is the sequence of its tokens: the literal "/status/", a digit, or
\* anything else.
StatusToken == "/status/"
IdDigits == {"1", "2"}
MarkupTokens == {StatusToken, "1", "2", "x"}

\* The longest run of digits of t that starts at position i: what (\d+)
\* takes there.
RECURSIVE DigitRun(_, _)
DigitRun(t, i) ==
    IF i <= Len(t) /\ t[i] \in IdDigits
    THEN <<t[i]>> \o DigitRun(t, i + 1)
    ELSE <<>>

\* The positions of t where r"/status/(\d+)" matches.
StatusMatches(t) ==
    {i \in 1..Len(t) : t[i] = StatusToken /\ DigitRun(t, i + 1) # <<>>}

\* 373, 381: re.search(r"/status/(\d+)", t) and m.group(1); the leftmost
\* match counts, <<>> stands for no match.
StatusId(t) ==
    IF StatusMatches(t) = {} THEN <<>>
    ELSE DigitRun(t, SetMin(StatusMatches(t)) + 1)

\* 391: the marker put before the digest.
Sha1Marker_none == <<>>
Sha1Marker == <<"s", "h", "a", "1", "-">>

\* 389-391: hashlib.sha1(...).hexdigest() of the encoded markup, a string of
\* hexadecimal digits. SHA-1 is taken as free of collisions: the digest is a
\* one-to-one image of the text (every token of the model is encodable, so
\* errors='ignore' drops nothing).
HexOf(token) ==
    CASE token = "1" -> "1"
      [] token = "2" -> "2"
      [] token = "x" -> "a"
      [] OTHER -> "f"

Sha1Hex(t) == [i \in 1..Len(t) |-> HexOf(t[i])]

\* 370-391: the fingerprint of an element, given its outerHTML ("" for None)
\* and the href of the first descendant link whose href contains "/status/"
\* (<<>> when the lookup finds none or raises, or the href is None).
ResolveFingerprint(outer_html, link_href) ==
    LET m == StatusId(outer_html)
        tweet_id == IF m # <<>> THEN m ELSE StatusId(link_href)
    IN  IF tweet_id = <<>>
        THEN Sha1Marker \o Sha1Hex(outer_html)
        ELSE tweet_id

\* What the DOM lookup of 379-380 can give.
LinkHrefs ==
    {<<>>, <<StatusToken, "1">>, <<"x", StatusToken, "2", "x">>,
     <<StatusToken, "x">>}

InitFingerprint ==
    /\ HelperIdle
    /\ fn = "fingerprint"
    /\ arg \in [outer_html : TextsUpTo(MarkupTokens, MaxMarkup),
                 link_href : LinkHrefs]
    /\ res = <<>>

CallFingerprint ==
    /\ fn = "fingerprint" /\ res = <<>>
    /\ Return(ResolveFingerprint(arg.outer_html, arg.link_href))

NextFingerprint == CallFingerprint

SpecFingerprint == InitFingerprint /\ [][NextFingerprint]_vars

\* --------------------------------------- the tweet_id of a record (538-542)
HrefTokens == {StatusToken, "1", "2", "/", "?"}

\* href.split("/status/")[-1]
AfterLastStatus(t) ==
    LET P == {i \in 1..Len(t) : t[i] = StatusToken}
    IN  IF P = {} THEN t ELSE SubSeq(t, SetMax(P) + 1, Len(t))

\* .split("?")[0]
BeforeFirstQuery(t) ==
    LET P == {i \in 1..Len(t) : t[i] = "?"}
    IN  IF P = {} THEN t ELSE SubSeq(t, 1, SetMin(P) - 1)

\* 540-542: the tweet_id taken from the href of the anchor around <time>.
TweetIdOfHref(href) ==
    IF \E i \in 1..Len(href) : href[i] = StatusToken
    THEN [kind |-> "str", val |-> BeforeFirstQuery(AfterLastStatus(href))]
    ELSE [kind |-> "none", val |-> <<>>]

InitTweetId ==
    /\ HelperIdle
    /\ fn = "tweet_id"
    /\ arg \in [href : TextsUpTo(HrefTokens, MaxHref)]
    /\ res = <<>>

CallTweetId ==
    /\ fn = "tweet_id" /\ res = <<>>
    /\ Return(TweetIdOfHref(arg.href))

NextTweetId == CallTweetId

SpecTweetId == InitTweetId /\ [][NextTweetId]_vars

\* ------------------------------------------ natural numbers of any size
\* A natural number is the sequence of its binary digits, the lowest first,
\* without a leading zero (0 is <<>>): the values of the parser pass 2^31 and
\* a double carries 53 bits.
Trim(b) ==
    LET P == {i \in 1..Len(b) : b[i] = 1}
    IN  IF P = {} THEN <<>> ELSE SubSeq(b, 1, SetMax(P))

\* The evaluation works on groups of LimbBits binary digits, so that a
\* carry runs through few steps.
LimbBits == 10
LimbBase == 1024

RECURSIVE Pow2(_)
Pow2(n) == IF n = 0 THEN 1 ELSE 2 * Pow2(n - 1)

BitAt(b, n) == IF n <= Len(b) THEN b[n] ELSE 0

ToLimbs(b) ==
    [i \in 1..((Len(b) + LimbBits - 1) \div LimbBits) |->
        LET at == LimbBits * (i - 1)
        IN  BitAt(b, at + 1)       + 2 * BitAt(b, at + 2)
          + 4 * BitAt(b, at + 3)   + 8 * BitAt(b, at + 4)
          + 16 * BitAt(b, at + 5)  + 32 * BitAt(b, at + 6)
          + 64 * BitAt(b, at + 7)  + 128 * BitAt(b, at + 8)
          + 256 * BitAt(b, at + 9) + 512 * BitAt(b, at + 10)]

FromLimbs(L) ==
    Trim([j \in 1..(LimbBits * Len(L)) |->
            (L[((j - 1) \div LimbBits) + 1] \div Pow2((j - 1) % LimbBits)) % 2])

\* The limbs of L * k + c from limb i on.
RECURSIVE MulLimbs(_, _, _, _)
MulLimbs(L, i, k, c) ==
    IF i > Len(L)
    THEN IF c = 0 THEN <<>>
         ELSE <<c % LimbBase>> \o MulLimbs(L, i + 1, k, c \div LimbBase)
    ELSE <<(L[i] * k + c) % LimbBase>>
            \o MulLimbs(L, i + 1, k, (L[i] * k + c) \div LimbBase)

\* b * k + c, for k <= 1000 and c < k + 10
MulAdd(b, k, c) == FromLimbs(MulLimbs(ToLimbs(b), 1, k, c))

\* The remainder of the limbs of L above limb i by d.
RECURSIVE RemAbove(_, _, _)
RemAbove(L, i, d) ==
    IF i >= Len(L) THEN 0
    ELSE (RemAbove(L, i + 1, d) * LimbBase + L[i + 1]) % d

\* Quotient and remainder of b by d <= 100000.
DivMod(b, d) ==
    LET L == ToLimbs(b)
    IN  [q |-> FromLimbs([i \in 1..Len(L) |->
                             (RemAbove(L, i, d) * LimbBase + L[i]) \div d]),
         r |-> RemAbove(L, 0, d)]

\* b * 2^n
ShiftLeft(b, n) == IF b = <<>> THEN <<>> ELSE [i \in 1..n |-> 0] \o b

\* b \div 2^n
ShiftRight(b, n) == IF n >= Len(b) THEN <<>> ELSE SubSeq(b, n + 1, Len(b))

RECURSIVE Pow10(_)
Pow10(n) == IF n = 0 THEN 1 ELSE 10 * Pow10(n - 1)

\* ------------------------------------------------- binary64 (618-624)
\* A double is m * 2^e with m of at most MantissaBits bits. The texts of the
\* model stay far from the subnormal and the infinite range.
MantissaBits == 53
\* Bits kept below the quotient of float() so that it can be rounded.
GuardShift == 72

\* Round the number b (and what was lost below it: sticky) to MantissaBits
\* bits, to nearest, ties to even: [m, e] with value m * 2^e.
RoundNearestEven(b, sticky) ==
    IF Len(b) <= MantissaBits THEN [m |-> b, e |-> 0]
    ELSE LET drop == Len(b) - MantissaBits
             m == SubSeq(b, drop + 1, Len(b))
             guard == b[drop]
             rest == sticky \/ \E i \in 1..(drop - 1) : b[i] = 1
             up == guard = 1 /\ (rest \/ m[1] = 1)
         IN  [m |-> IF up THEN MulAdd(m, 1, 1) ELSE m, e |-> drop]

\* float("<digits of n with f of them after the point>"): the double nearest
\* to n / 10^f.
FloatOf(n, f) ==
    IF n = <<>> THEN [m |-> <<>>, e |-> 0]
    ELSE LET d == DivMod(ShiftLeft(n, GuardShift), Pow10(f))
             x == RoundNearestEven(d.q, d.r # 0)
         IN  [m |-> x.m, e |-> x.e - GuardShift]

\* int(num): the integer part
FloatToInt(x) ==
    IF x.e >= 0 THEN ShiftLeft(x.m, x.e) ELSE ShiftRight(x.m, 0 - x.e)

\* ------------------------------------- the shorthand parser (599-638)
DecDigits == {"0", "1", "2", "3", "4", "5", "6", "7", "8", "9"}

DigitValue(c) ==
    CASE c = "0" -> 0 [] c = "1" -> 1 [] c = "2" -> 2 [] c = "3" -> 3
      [] c = "4" -> 4 [] c = "5" -> 5 [] c = "6" -> 6 [] c = "7" -> 7
      [] c = "8" -> 8 [] c = "9" -> 9

\* [\d\.] and [\d,.]
NumChars == DecDigits \cup {"."}
CountChars == DecDigits \cup {".", ","}
\* [kKmM]
SuffixChars == {"k", "K", "m", "M"}
\* \s, and what strip() removes
SpaceChars == {" "}

\* What the functions return: None, an int, or the exception they raise.
NoneResult == [kind |-> "None", bits |-> <<>>]
IntResult(b) == [kind |-> "int", bits |-> b]
Raised(e) == [kind |-> e, bits |-> <<>>]

\* int("<digits>")
RECURSIVE IntOfDigits(_)
IntOfDigits(t) ==
    IF t = <<>> THEN <<>>
    ELSE MulAdd(IntOfDigits(SubSeq(t, 1, Len(t) - 1)), 10, DigitValue(t[Len(t)]))

IsDigit(c) == c \in DecDigits
NotComma(c) == c # ","

\* How many characters of t from position i on are in S.
RECURSIVE RunLen(_, _, _)
RunLen(t, i, S) ==
    IF i <= Len(t) /\ t[i] \in S THEN 1 + RunLen(t, i + 1, S) ELSE 0

\* strip()
RECURSIVE Strip(_)
Strip(t) ==
    IF t = <<>> THEN t
    ELSE IF t[1] \in SpaceChars THEN Strip(Tail(t))
    ELSE IF t[Len(t)] \in SpaceChars THEN Strip(SubSeq(t, 1, Len(t) - 1))
    ELSE t

\* 612: re.match(r"^([\d\.]+)\s*([kKmM]?)$", s); the three classes are
\* disjoint, so the greedy match is the only one.
ShorthandMatch(s) ==
    LET n1 == RunLen(s, 1, NumChars)
        n2 == RunLen(s, n1 + 1, SpaceChars)
        rest == SubSeq(s, n1 + n2 + 1, Len(s))
    IN  [ok |-> /\ n1 >= 1
                /\ \/ rest = <<>>
                   \/ (Len(rest) = 1 /\ rest[1] \in SuffixChars),
         num |-> SubSeq(s, 1, n1),
         suf |-> rest]

\* What float() accepts of a text of digits and points: at most one point
\* and at least one digit.
FloatAccepts(num) ==
    /\ Cardinality({i \in 1..Len(num) : num[i] = "."}) <= 1
    /\ \E i \in 1..Len(num) : IsDigit(num[i])

\* The digits after the point.
FractionDigits(num) ==
    LET P == {i \in 1..Len(num) : num[i] = "."}
    IN  IF P = {} THEN 0 ELSE Len(num) - SetMin(P)

\* 619-623: the factor of the suffix
Scale(suf) ==
    IF suf = <<>> THEN 1
    ELSE IF suf[1] \in {"k", "K"} THEN 1000
    ELSE 1000000

\* num * 1000 and num * 1000000 (620-623), each one rounding of the exact
\* product; the product by 1000000 is computed in two steps of 1000.
FloatScaled(x, k) ==
    LET p == IF k = 1000 THEN MulAdd(x.m, 1000, 0)
             ELSE MulAdd(MulAdd(x.m, 1000, 0), 1000, 0)
        y == RoundNearestEven(p, FALSE)
    IN  [m |-> y.m, e |-> x.e + y.e]

\* 599-624: _shorthand_to_int
ShorthandToInt(text) ==
    IF text = <<>> THEN NoneResult
    ELSE LET s == Strip(SelectSeq(text, NotComma))
             m == ShorthandMatch(s)
         IN  IF ~m.ok
             THEN LET digits == SelectSeq(s, IsDigit)
                  IN  IF digits = <<>> THEN NoneResult
                      ELSE IntResult(IntOfDigits(digits))
             ELSE IF ~FloatAccepts(m.num) THEN Raised("ValueError")
             ELSE LET num == FloatOf(IntOfDigits(SelectSeq(m.num, IsDigit)),
                                     FractionDigits(m.num))
                  IN  IF m.suf = <<>> THEN IntResult(FloatToInt(num))
                      ELSE IntResult(FloatToInt(FloatScaled(num, Scale(m.suf))))

\* 635: re.search(r"([\d,.]+[kKmM]?)", text): the leftmost run of digits,
\* commas and points, with the suffix letter after it if there is one.
CountMatch(text) ==
    LET P == {i \in 1..Len(text) : text[i] \in CountChars}
    IN  IF P = {} THEN <<>>
        ELSE LET i == SetMin(P)
                 n == RunLen(text, i, CountChars)
                 k == IF i + n <= Len(text) /\ text[i + n] \in SuffixChars
                      THEN 1 ELSE 0
             IN  SubSeq(text, i, i + n + k - 1)

\* 626-638: _parse_count_from_text
ParseCountFromText(text) ==
    IF text = <<>> THEN NoneResult
    ELSE IF CountMatch(text) = <<>> THEN NoneResult
    ELSE ShorthandToInt(CountMatch(text))

\* The texts given to the parser.
ShorthandChars == {"1", "4", ".", ",", "k", "M", "a", " "}
ShorthandTexts == TextsUpTo(ShorthandChars, MaxText)

InitShorthand ==
    /\ HelperIdle
    /\ fn \in {"_shorthand_to_int", "_parse_count_from_text"}
    /\ arg \in [text : ShorthandTexts]
    /\ res = <<>>

CallShorthandToInt ==
    /\ fn = "_shorthand_to_int" /\ res = <<>>
    /\ Return(ShorthandToInt(arg.text))

CallParseCountFromText ==
    /\ fn = "_parse_count_from_text" /\ res = <<>>
    /\ Return(ParseCountFromText(arg.text))

NextShorthand == CallShorthandToInt \/ CallParseCountFromText

SpecShorthand == InitShorthand /\ [][NextShorthand]_vars

\* ------------------------------- the record of a tweet block (513-593)
\* What parse_html_to_df reads of a block for content and the four counts:
\* the text of the tweetText element, of the whole block, of the reply,
\* retweet and like buttons, the aria-label of the element whose label
\* holds "view", and what r"([\d,.]+[kKmM]?)\s*views?" takes from the
\* block's text; each may be missing.
Missing == [present |-> FALSE, text |-> <<>>]
Found(t) == [present |-> TRUE, text |-> t]

\* except Exception: rec[...] = None (566, 572, 578, 590)
Guarded_leaks(r) == r
Guarded(r) == IF r.kind \in {"None", "int"} THEN r ELSE NoneResult

\* 563-579: the count of a button
ButtonCount(btn) ==
    IF btn.present THEN Guarded(ParseCountFromText(btn.text)) ELSE NoneResult

\* 581-591: the view count
ViewCount(label, group) ==
    IF label.present THEN Guarded(ParseCountFromText(label.text))
    ELSE IF group.present THEN Guarded(ShorthandToInt(group.text))
    ELSE NoneResult

\* 544-546, 560-561: the text of the tweetText element, else of the block
Content(tweet_text, block_text) ==
    [kind |-> "str",
     val |-> IF tweet_text.present THEN tweet_text.text ELSE block_text]

\* 514-593: the record of a block, as far as content and counts go
RecordOfBlock(tb) ==
    [content |-> Content(tb.tweet_text, tb.block_text),
     reply_count |-> ButtonCount(tb.reply),
     retweet_count |-> ButtonCount(tb.retweet),
     like_count |-> ButtonCount(tb.like),
     view_count |-> ViewCount(tb.view_label, tb.view_group)]

\* Texts of buttons and labels: no text, a count, a count in shorthand, a
\* lone point, digits with several points, words.
ButtonTexts ==
    {<<>>, <<"1", "4">>, <<"1", ".", "4", "k">>, <<".">>,
     <<"1", ".", "1", ".", "1">>, <<"a">>}
\* What the views pattern can take: a run of digits, commas and points and
\* a suffix letter.
ViewGroups == {<<"1", "4">>, <<"1", ".", "4", "k">>, <<".">>, <<",">>}

Blocks ==
    [tweet_text : {Missing, Found(<<>>), Found(<<"a">>)},
     block_text : {<<>>, <<"a">>},
     reply : {Missing} \cup {Found(t) : t \in ButtonTexts},
     retweet : {Missing} \cup {Found(t) : t \in ButtonTexts},
     like : {Missing} \cup {Found(t) : t \in ButtonTexts},
     view_label : {Missing} \cup {Found(t) : t \in ButtonTexts \ {<<>>}},
     view_group : {Missing} \cup {Found(t) : t \in ViewGroups}]

InitRecord ==
    /\ HelperIdle
    /\ fn = "record"
    /\ arg \in [tb : Blocks]
    /\ res = <<>>

CallRecord ==
    /\ fn = "record" /\ res = <<>>
    /\ Return(RecordOfBlock(arg.tb))

NextRecord == CallRecord

SpecRecord == InitRecord /\ [][NextRecord]_vars

\* ---------------------------------------------------------------- claims
\* counts[r] is the unique count logged at the end of the merge of the r-th
\* round (round r - 1 of the 0-indexed numbering).
GrowthRounds ==
    {r \in 1..Len(counts) : counts[r] > (IF r = 1 THEN 0 ELSE counts[r - 1])}

LastGrowth == CHOOSE r \in GrowthRounds : \A q \in GrowthRounds : q <= r

\* C1: collect returns in the first round at whose end-of-merge the unique
\* count is >= min_count, it returns that count, and that round is the last
\* enumeration and is followed by no scroll.
C1_ReturnsAtFirstTargetRound ==
    \A r \in 1..Len(counts) :
        counts[r] >= min_count =>
            /\ r = Len(counts)
            /\ cpc = "returned" /\ stopReason = "target"
            /\ ret = counts[r]
            /\ enumCalls = r
            /\ scrollCalls = r - 1

C1_Witness ==
    /\ cpc = "returned" /\ stopReason = "target"
    /\ min_count = 3 /\ Len(counts) = 3 /\ ret = 4
    /\ counts[2] = 2

\* C2: collect always ends, after at most max_rounds enumerations and at most
\* max_rounds scroll steps; when the round budget ends it, it returns |seen|.
C2_BoundedRounds ==
    /\ [](/\ enumCalls <= max_scrolls
          /\ scrollCalls <= max_scrolls
          /\ Len(counts) <= max_scrolls
          /\ (cpc = "returned" /\ stopReason = "exhausted" =>
                /\ ret = Cardinality(seen)
                /\ scrolls = max_scrolls /\ enumCalls = max_scrolls))
    /\ <>(cpc \in {"returned", "raised"})

C2_Witness ==
    /\ cpc = "returned" /\ stopReason = "exhausted"
    /\ max_scrolls = 3 /\ min_count = 3 /\ ret = 2
    /\ counts = <<0, 1, 2>>

Positions(rows, id) == {i \in 1..Len(rows) : rows[i].tweet_id = id}

FirstPosition(rows, id) ==
    CHOOSE i \in Positions(rows, id) : \A j \in Positions(rows, id) : i <= j

\* The batches of all hashtags, concatenated in processing order.
Batches == Concat(all_dfs)

\* C4: every non-null item_id found in more than one record of the
\* concatenated batches is in the persisted aggregate exactly once, as the
\* first of these records in hashtag-processing order.
C4_FirstOccurrenceWins ==
    writes = 1 =>
        \A id \in StatusIds :
            Cardinality(Positions(Batches, id)) > 1 =>
                /\ Cardinality(Positions(artifact.rows, id)) = 1
                /\ artifact.rows[FirstPosition(artifact.rows, id)]
                     = Batches[FirstPosition(Batches, id)]

C4_Witness ==
    /\ writes = 1 /\ hashtags = <<"#a", "#b">>
    /\ \E id \in StatusIds :
         /\ Cardinality(Positions(Batches, id)) > 1
         /\ artifact.rows[FirstPosition(artifact.rows, id)].queried_hashtag = "#a"
         /\ \E i \in Positions(Batches, id) : Batches[i].queried_hashtag = "#b"

\* C5: aggregation removes no record without item_id: the persisted aggregate
\* holds as many id-less records as the batches together.
C5_IdlessRecordsKept ==
    writes = 1 =>
        Cardinality(Positions(artifact.rows, None))
            = Cardinality(Positions(Batches, None))

\* C6: once the driver exists, it is released (quit is called) on every way
\* out of run.
C6_DriverReleasedOnEveryExit ==
    (pc = "done" /\ driver # "none") => quitCalls >= 1

\* C7: a failure confined to one hashtag (here: the search box is not found
\* while searching it) does not leave run: every hashtag is still processed
\* and the records are persisted.
C7_HashtagFailureContained ==
    (pc = "done" /\ excAt = "search") =>
        /\ result = "out_path"
        /\ writes = 1
        /\ idx = Len(hashtags)

\* C9: the artifact is written at most once, after every hashtag has finished
\* its cycle, from the aggregate; a run that raises before has written nothing.
C9_WrittenOnceAtTheEnd ==
    /\ writes <= 1
    /\ writes = 0 <=> artifact = NoArtifact
    /\ pc \in {"start", "auth", "explore", "search", "latest", "collect",
               "capture_sel", "capture_tweets", "extract", "aggregate",
               "persist"} => writes = 0
    /\ writes = 1 =>
          /\ idx = Len(hashtags)
          /\ exc = "none"
          /\ artifact.rows = final
          /\ final = IF all_dfs = <<>> THEN <<>> ELSE DropDuplicates(Batches)
    /\ exc # "none" => writes = 0

C9_Witness ==
    /\ pc = "done" /\ writes = 1 /\ Len(hashtags) = 2 /\ Len(all_dfs) = 2
    /\ artifact.rows # <<>>

\* The loop over the hashtags has ended without an exception.
LoopEnded ==
    /\ pc \in {"aggregate", "persist", "finally", "done"}
    /\ excAt \in {"none", "aggregate", "persist"}

\* C10: when every hashtag yields zero records (also for no hashtag at all),
\* run raises nothing on that account: it writes an empty dataset to the
\* output path and returns the path.
C10_EmptyDatasetPersisted ==
    (LoopEnded /\ all_dfs = <<>>) =>
        /\ excAt # "aggregate"
        /\ pc \in {"persist", "finally", "done"} => final = <<>>
        /\ (pc \in {"finally", "done"} /\ excAt = "none") =>
              /\ writes = 1
              /\ artifact.rows = <<>>
              /\ result = "out_path"

C10_Witness ==
    /\ pc = "done" /\ exc = "none" /\ Len(hashtags) = 2 /\ parseCalls = 2
    /\ all_dfs = <<>> /\ writes = 1 /\ artifact.rows = <<>>
    /\ result = "out_path"

\* C11: login is called exactly when both a username and a password are
\* given, and no failure inside login (the login page not loading, an input
\* that cannot be clicked or typed into) leaves run: the run goes on to the
\* navigation.
C11_LoginNeverAbortsRun ==
    /\ (pc \notin {"start", "auth"} /\ excAt # "start_driver") =>
          (loginCalls = 1 <=> (Truthy(username) /\ Truthy(password)))
    /\ excAt # "login"

\* C12: with a driver path that does not exist, run ends with the
\* FileNotFoundError of start_driver: no browser was started, no login,
\* navigation, search or later step was executed, nothing was written.
C12_MissingDriverPathAbortsFirst ==
    ~driver_path_exists =>
        /\ pc \in {"start", "done"}
        /\ driver = "none" /\ quitCalls = 0 /\ loginCalls = 0
        /\ idx = 0 /\ parseCalls = 0 /\ cpc = "idle"
        /\ writes = 0 /\ artifact = NoArtifact /\ result = None
        /\ pc = "done" => (exc = "FileNotFoundError" /\ excAt = "start_driver")

C12_Witness ==
    /\ ~driver_path_exists /\ pc = "done"
    /\ exc = "FileNotFoundError" /\ hashtags = <<"#a", "#b">>
    /\ Truthy(username) /\ Truthy(password)

\* The ids of the permalinks in a markup.
PermalinkIds(t) == {DigitRun(t, i + 1) : i \in StatusMatches(t)}

\* C13: the fingerprint of an element whose markup holds a permalink
\* /status/<digits> is the id of that permalink, whatever else the markup
\* holds; so the element of a post is never given the id of another post.
C13_FingerprintIsThePermalinkId ==
    (fn = "fingerprint" /\ res # <<>>) =>
        \A p \in PermalinkIds(arg.outer_html) : res[1] = p

NoPermalink(outer_html, link_href) ==
    StatusId(outer_html) = <<>> /\ StatusId(link_href) = <<>>

AllDigits(t) == t # <<>> /\ \A i \in 1..Len(t) : t[i] \in IdDigits

C15_RecordIdIsFingerprintId ==
    (fn = "tweet_id" /\ res # <<>> /\ StatusId(arg.href) # <<>>) =>
        /\ res[1].kind = "str"
        /\ res[1].val = StatusId(arg.href)

\* C16: the shorthand parser never raises: whatever the text, it returns an
\* integer or None.
C16_ParserNeverRaises ==
    (fn \in {"_shorthand_to_int", "_parse_count_from_text"} /\ res # <<>>) =>
        res[1].kind \in {"None", "int"}

\* <decimal number><optional suffix>: digits with at most one point among
\* them, then at most one of k, K, m, M.
DecimalWithSuffix(s) ==
    LET n == RunLen(s, 1, NumChars)
        num == SubSeq(s, 1, n)
        rest == SubSeq(s, n + 1, Len(s))
    IN  /\ Cardinality({i \in 1..Len(num) : num[i] = "."}) <= 1
        /\ \E i \in 1..Len(num) : IsDigit(num[i])
        /\ (rest = <<>> \/ (Len(rest) = 1 /\ rest[1] \in SuffixChars))

\* The number of a text of that form times the factor of its suffix, cut to
\* its integer part, in exact arithmetic.
ScaledExactly(s) ==
    LET n == RunLen(s, 1, NumChars)
        num == SubSeq(s, 1, n)
        rest == SubSeq(s, n + 1, Len(s))
        n0 == IntOfDigits(SelectSeq(num, IsDigit))
        n1 == IF rest = <<>> THEN n0 ELSE MulAdd(n0, 1000, 0)
        n2 == IF Scale(rest) = 1000000 THEN MulAdd(n1, 1000, 0) ELSE n1
    IN  DivMod(n2, Pow10(FractionDigits(num))).q

\* C17: for a text that is <decimal number><optional suffix> once the
\* thousands separators are removed, _shorthand_to_int returns the number
\* times 1000 (k, K), 1000000 (m, M) or 1, cut to an integer; for the empty
\* text and for a text without any digit it returns no number (that it does
\* not raise either is C16).
C17_ScaledAndTruncated ==
    (fn = "_shorthand_to_int" /\ res # <<>>) =>
        LET s == SelectSeq(arg.text, NotComma)
        IN  /\ DecimalWithSuffix(s) => res[1] = IntResult(ScaledExactly(s))
            /\ (\A i \in 1..Len(arg.text) : ~IsDigit(arg.text[i]))
                  => res[1].kind # "int"

\* A count of a record is None or an integer (the integers of the model are
\* natural numbers: no text makes the parser return a negative one).
CountOrAbsent(c) == c.kind \in {"None", "int"}

\* C18: every record has a content that is a text, the empty one when the
\* block has none, and each of its four counts is None or a non-negative
\* integer: never an exception, never the text itself.
C18_RecordInvariants ==
    (fn = "record" /\ res # <<>>) =>
        /\ res[1].content.kind = "str"
        /\ (~arg.tb.tweet_text.present /\ arg.tb.block_text = <<>>)
              => res[1].content.val = <<>>
        /\ CountOrAbsent(res[1].reply_count)
        /\ CountOrAbsent(res[1].retweet_count)
        /\ CountOrAbsent(res[1].like_count)
        /\ CountOrAbsent(res[1].view_count)

C18_Witness ==
    /\ fn = "record" /\ res # <<>>
    /\ arg.tb.tweet_text = Missing /\ arg.tb.block_text = <<>>
    /\ arg.tb.reply = Found(<<".">>)
    /\ arg.tb.retweet = Found(<<"1", ".", "4", "k">>)
    /\ arg.tb.view_label = Missing /\ arg.tb.view_group = Found(<<".">>)
    /\ res[1].content.val = <<>>
    /\ res[1].reply_count = NoneResult
    /\ res[1].retweet_count = IntResult(<<0, 0, 0, 1, 1, 1, 1, 0, 1, 0, 1>>)
    /\ res[1].view_count = NoneResult

\* C19: no exception of a log write leaves run: a failing log write does not
\* end the collection, does not keep the artifact from being written and
\* does not turn the swallowed failure of driver.quit into a raised one.
C19_LoggingFailureChangesNothing ==
    /\ excAt \notin {"log", "close_log"}
    /\ (pc = "done" /\ driver = "quit_failed") => exc # "OSError"

\* C20: when grab_entire_div_html is called for a hashtag (712, right after
\* ensure_min_tweets_loaded has returned at 708), the collector has counted
\* at least per_tag_target unique tweets.
C20_CaptureOnlyAfterTarget ==
    (pc = "collect" /\ cpc = "returned") => ret >= per_tag_target

\* ---------------------------------------------------------------------------
\* C21: within one collection the set of seen fingerprints only grows (every
\* round's set holds the round before's), and on every way out (target, stall,
\* exhaustion) the value returned is the size of the set.
C21_SeenOnlyGrows ==
    /\ [][seen \subseteq seen']_vars
    /\ [](cpc = "returned" => ret = Cardinality(seen))

\* A collection that grew in each of two rounds and then ran out of rounds.
C21_Witness ==
    /\ cpc = "returned" /\ stopReason = "exhausted"
    /\ counts = <<1, 2>> /\ ret = 2

\* ---------------------------------------------------------------------------
\* The most recent rounds in a row whose count did not exceed the count of the
\* round before (the first round is compared with the empty set).
TrailingFlatRounds ==
    IF GrowthRounds = {} THEN Len(counts) ELSE Len(counts) - LastGrowth

\* C22: after the stall step of every round that does not return at the target
\* check, stable_rounds is the number of most recent rounds in a row that did
\* not grow the set, hence 0 right after a round that grew it; it never
\* exceeds 6.
C22_StallCounterCountsFlatRounds ==
    /\ stable_rounds <= STALL_LIMIT
    /\ stopReason # "target" => stable_rounds = TrailingFlatRounds

\* Two flat rounds after a growth round that followed a flat first round.
C22_Witness ==
    /\ cpc = "loop" /\ counts = <<0, 1, 1, 1>> /\ stable_rounds = 2

\* ---------------------------------------------------------------------------
\* C23: when the read of one element of a round raises, the element is
\* skipped: every other element of the round is fingerprinted and merged, the
\* round is counted, its target and stall checks are made and, unless one of
\* them returns, its scroll is done; nothing is raised.
C23_FailedReadIsSkipped ==
    (fn = "rounds" /\ arg # <<>> /\ arg[2]) =>
        /\ \A m \in arg[1] : Fingerprint(m) \in seen
        /\ cpc \in {"loop", "returned"} /\ exc = "none"
        /\ Len(counts) = enumCalls
        /\ counts[Len(counts)] = Cardinality(seen)
        /\ stopReason = "target" => ret >= min_count
        /\ cpc = "loop" =>
              /\ Cardinality(seen) < min_count
              /\ stable_rounds < STALL_LIMIT
              /\ scrollCalls = enumCalls /\ scrolls = enumCalls

\* The read of one of two elements raised in the first round; the other was
\* merged and the round went on to its scroll.
C23_Witness ==
    /\ fn = "rounds" /\ arg # <<>> /\ arg[2] /\ Cardinality(arg[1]) = 1
    /\ counts = <<1>> /\ \A m \in arg[1] : seen = {Fingerprint(m)}
    /\ cpc = "loop" /\ scrollCalls = 1

\* ---------------------------------------------------------------------------
\* The permalink ids among a set of read elements, and the markups of those
\* without permalink.
ReadIds(read) == {m.sid : m \in {e \in read : e.sid # None}}
ReadPlain(read) == {e \in read : e.sid = None}

\* C24: after every round the size of seen is the number of distinct permalink
\* ids among the elements read so far plus the number of distinct markups
\* among the read elements without permalink. A round in which every markup
\* not read before belongs to a permalink id read before adds nothing and adds
\* one to the stall counter; a round that reads an element without permalink
\* whose markup was not read before grows the set and resets the stall
\* counter.
C24_SeenCountsLogicalItems ==
    /\ [](fn = "rounds" =>
            Cardinality(seen) =
                Cardinality(ReadIds(res[1])) + Cardinality(ReadPlain(res[1])))
    /\ [][(fn = "rounds" /\ enumCalls' = enumCalls + 1) =>
            LET new == res'[1] \ res[1]
            IN  /\ (\A m \in new : m.sid \in ReadIds(res[1])) =>
                      /\ seen' = seen
                      /\ stable_rounds' = stable_rounds + 1
                /\ (\E m \in new : m.sid = None) =>
                      /\ Cardinality(seen') > Cardinality(seen)
                      /\ stopReason' # "target" => stable_rounds' = 0]_vars

\* A post with permalink 101 and an element without permalink; the post is
\* re-rendered with other markup (the count stays 2, the stall counter goes
\* to 1), then the other element's markup changes (the count goes to 3, the
\* stall counter back to 0).
C24_Witness ==
    /\ fn = "rounds" /\ cpc = "loop"
    /\ counts = <<2, 2, 3>> /\ stable_rounds = 0
    /\ res[1] = {[sid |-> "101", body |-> "x"], [sid |-> "101", body |-> "y"],
                 [sid |-> None, body |-> "x"], [sid |-> None, body |-> "y"]}

\* ---------------------------------------------------------------------------
\* C25: capture returns the wrapper, not the container markup, whenever the
\* container holds fewer than max(10, element_count / 4) item tags, for every
\* number of enumerated elements, 0 included: a container that is returned
\* holds at least that many.
C25_SparseContainerDiscarded ==
    (pc = "extract" /\ html.kind = "container") =>
        ~(\/ html.articles < MIN_ARTICLES
          \/ 4 * html.articles < Len(html.blocks))

\* ---------------------------------------------------------------------------
\* The order of a hashtag's steps after Navigated: Searched, LatestSelected,
\* Collected, Captured, Extracted, each entered from the one before; the
\* collection is entered with an empty seen set and its counters at 0.
CycleInOrder ==
    /\ pc' = "latest" => pc = "search"
    /\ (pc' = "collect" /\ pc # "collect") =>
          /\ pc = "latest"
          /\ seen' = {} /\ stable_rounds' = 0 /\ scrolls' = 0
          /\ last_seen_count' = 0 /\ enumCalls' = 0
    /\ (pc' = "capture_sel" /\ pc # "capture_sel") =>
          pc = "collect" /\ cpc = "returned"
    /\ pc' = "capture_tweets" => pc = "capture_sel"
    /\ pc' = "extract" => pc = "capture_tweets"

\* The hashtags are taken one at a time, in list order: the next one is begun
\* only from the end of the one before (or, the first, from the step before
\* the loop).
OneHashtagAtATime ==
    idx' # idx => idx' = idx + 1 /\ pc \in {"explore", "extract"}

\* Aggregated and Persisted come after the last hashtag's Extracted and
\* before Closed.
AggregatedAfterLast ==
    /\ pc' = "aggregate" =>
          idx = Len(hashtags) /\ pc \in {"explore", "extract"}
    /\ pc' = "persist" => pc = "aggregate"
    /\ pc' \in {"aggregate", "persist"} => quitCalls' = 0
    /\ writes' # writes => pc = "persist" /\ quitCalls' = 0

\* C26: every hashtag's cycle is Navigated, Searched, LatestSelected,
\* Collected, Captured, Extracted in that order (so Searched is entered from
\* Navigated, for every hashtag), one hashtag at a time, each collection
\* starting from an empty seen set and zero counters, and Aggregated and
\* Persisted after the last hashtag and before Closed.
C26_PerHashtagCycle ==
    [][/\ pc' = "search" => pc = "explore"
       /\ CycleInOrder
       /\ OneHashtagAtATime
       /\ AggregatedAfterLast]_vars

C28_BelowTargetUnlessTargetCheck ==
    (cpc = "returned" /\ stopReason \in {"stall", "exhausted"}) =>
        ret < min_count

\* C28, amended: a value >= min_count is returned through the target check
\* of a round, except that with max_scrolls = 0 no round is made and 0 is
\* returned, which is >= min_count when min_count <= 0. Whenever the
\* collection stops by the stall rule, or by running out of max_scrolls >= 1
\* rounds, or with max_scrolls = 0 and min_count >= 1, the value returned is
\* below min_count.
C28_BelowTargetAfterARound ==
    (cpc = "returned" /\ stopReason \in {"stall", "exhausted"}) =>
        IF max_scrolls >= 1 \/ min_count >= 1
        THEN ret < min_count
        ELSE ret = 0 /\ enumCalls = 0 /\ stopReason = "exhausted"

\* One round that found two of the three posts asked for, and no round left.
C28_Witness ==
    /\ cpc = "returned" /\ stopReason = "exhausted"
    /\ max_scrolls = 1 /\ min_count = 3 /\ ret = 2

\* ---------------------------------------------------------------------------
\* C29: whenever capture returns it returns markup, never None: the container
\* or, when no selector gave one, the wrapper, even around zero elements. So
\* run never skips a hashtag for want of markup: extraction has been called
\* once for every hashtag whose capture returned.
C29_CaptureAlwaysYieldsHtml ==
    /\ pc = "extract" => html.kind \in {"container", "wrapper"}
    /\ pc \in {"search", "latest", "collect", "capture_sel", "capture_tweets",
               "extract"} => parseCalls = idx - 1
    /\ pc \in {"aggregate", "persist"} =>
          parseCalls = idx /\ idx = Len(hashtags)

\* No selector gave a container and no element was enumerated: the second
\* hashtag's capture returns the empty wrapper, after the first hashtag's
\* markup was extracted.
C29_Witness ==
    /\ pc = "extract" /\ idx = 2 /\ parseCalls = 1
    /\ html.kind = "wrapper" /\ html.blocks = <<>>

====
